---- MODULE Spec2Model ----
(***************************************************************************)
(* The resource-name extractor get_resource of the training notebooks      *)
(* (Spark/Horovod and TensorFlow) and the deployment cells that use it:    *)
(*   %%capture <x>_output --no-stderr / ! kubectl create -f $FILE          *)
(*   <X>_JOB = get_resource(<x>_output)                                    *)
(*   ! kubectl describe $<X>_JOB                                           *)
(*   ! kubectl delete $<X>_JOB                                             *)
(* Texts are sequences of one-character strings, so that the regular       *)
(* expression is matched character by character.                           *)
(***************************************************************************)
EXTENDS Integers, Sequences, FiniteSets, TLC

VARIABLES
    nb,        \* the notebook being run: "hvd" (Spark/Horovod) or "tf" (TensorFlow)
    output,    \* hvd_output / tf_output: the CapturedIO object of the create cell
    JOB,       \* HVD_JOB / TF_JOB: the notebook variable holding the resource name
    pc,        \* position inside the cell <X>_JOB = get_resource(<x>_output)
    ret,       \* outcome of the get_resource call being evaluated (or last evaluated)
    prev,      \* outcome of the call before it on the same captured object
    cmds,      \* the external commands issued so far, oldest first
    cluster,   \* whether the resource of the manifest exists on the cluster
    existed,   \* whether it existed when the last create command ran
    errout,    \* what the last create command wrote to its standard error
    inflight,  \* the positions in cmds of the commands still running
    cell,      \* the cell a top-to-bottom run has come to (0: cells run by hand)
    trainer,   \* the Horovod trainer: its processes
    argp,      \* the Horovod trainer: its command line and what the parser made of it
    katib,     \* a trial of the Katib experiment on the TensorFlow trainer
    meta,      \* the metadata notebook: its variables and the metadata store
    data       \* the Horovod trainer: the data set and the shard of each rank

others == <<trainer, argp, katib, meta, data>>

notebook == <<nb, output, JOB, pc, ret, prev, cmds, cluster, existed, errout,
              inflight, cell>>

vars == <<nb, output, JOB, pc, ret, prev, cmds, cluster, existed, errout, inflight, cell,
          trainer, argp, katib, meta, data>>

-----------------------------------------------------------------------------
(* Bounds of the model *)

MaxPieces == 5      \* a generated text is at most this many pieces long
MaxLines == 3       \* a line-built text has at most this many lines
MaxCmds == 5        \* external commands issued in one session

-----------------------------------------------------------------------------
(* Characters and texts *)

SP == " "
NL == "\n"
TAB == "\t"

\* The characters Python's \s matches, among those the texts are built of.
Whitespace == {SP, TAB, NL}

IsSpace(c) == c \in Whitespace

\* The literal the pattern ends in.
Created == <<"c", "r", "e", "a", "t", "e", "d">>

RECURSIVE Flatten(_)
Flatten(ss) == IF ss = <<>> THEN <<>> ELSE Head(ss) \o Flatten(Tail(ss))

RECURSIVE JoinLines(_)
JoinLines(ls) ==
    IF ls = <<>> THEN <<>>
    ELSE IF Len(ls) = 1 THEN Head(ls)
    ELSE Head(ls) \o <<NL>> \o JoinLines(Tail(ls))

Pieces == { <<"a">>, <<"b">>, <<SP>>, <<NL>>, Created }

PieceTexts ==
    { Flatten(ps) : ps \in UNION { [1..n -> Pieces] : n \in 0..MaxPieces } }

LineShapes ==
    { <<>>,
      <<"x">>,
      <<"a", SP>> \o Created,
      <<"b", "/", "j", SP>> \o Created,
      <<"a", TAB, SP>> \o Created,
      Created,
      <<"a", SP>> \o Created \o <<SP, "b">> }

LineTexts ==
    { JoinLines(ls) : ls \in UNION { [1..n -> LineShapes] : n \in 1..MaxLines } }

\* What the CLI may leave on standard output when it has created the resource.
CreatedOutputs ==
    { <<"a", SP>> \o Created,
      <<"a", SP>> \o Created \o <<NL>>,
      <<"a", SP>> \o Created \o <<NL, "b", SP>> \o Created,
      <<"x", NL, "a", SP>> \o Created,
      <<"a", SP>> \o Created \o <<SP, "b">> }

\* What is captured when it has not: nothing (the error is on standard error
\* and not captured), or the text of the error ('Error ... when creating ...').
FailedOutputs ==
    { <<>>,
      <<"E", "r", "r", "o", "r">>,
      <<"E", "r", "r", SP, "c", "r", "e", "a", "t", "i", "n", "g", SP, "a">> }

\* What the CLI writes to standard error when it has created nothing.
ErrorTexts == FailedOutputs \ {<<>>}

\* What the CLI may leave on standard output in the notebook sessions.
CreateOutputs == CreatedOutputs \cup FailedOutputs

Texts == PieceTexts \cup LineTexts \cup CreateOutputs

-----------------------------------------------------------------------------
(* re.search(r"^(.+)\s+created", out) *)

\* s has the literal lit at position i (1-based).
StartsWith(s, i, lit) ==
    /\ i + Len(lit) - 1 <= Len(s)
    /\ \A j \in 1..Len(lit) : s[i + j - 1] = lit[j]

\* "." under re.DOTALL: any character at all.
Dot_all(c) == TRUE

\* "." without DOTALL: any character but a newline.
Dot(c) == c # NL

\* "^" without re.MULTILINE: only the start of the string.
Caret(s, p) == p = 1

\* The pattern matched as re.fullmatch would: the literal must end the text.
TailMatches_fullmatch(s, i) ==
    \E n \in 1..(Len(s) - i + 1) :
        /\ \A j \in i..(i + n - 1) : IsSpace(s[j])
        /\ StartsWith(s, i + n, Created)
        /\ i + n + Len(Created) - 1 = Len(s)

\* The pattern written with \s* for \s+: the whitespace may be missing.
TailMatches_star(s, i) ==
    \E n \in 0..(Len(s) - i + 1) :
        /\ \A j \in i..(i + n - 1) : IsSpace(s[j])
        /\ StartsWith(s, i + n, Created)

\* The pattern written with the literal cut to "creat": 'creating' matches too.
TailMatches_creat(s, i) ==
    \E n \in 1..(Len(s) - i + 1) :
        /\ \A j \in i..(i + n - 1) : IsSpace(s[j])
        /\ StartsWith(s, i + n, SubSeq(Created, 1, 5))

\* \s+created at position i: a non-empty run of whitespace, then the literal.
TailMatches(s, i) ==
    \E n \in 1..(Len(s) - i + 1) :
        /\ \A j \in i..(i + n - 1) : IsSpace(s[j])
        /\ StartsWith(s, i + n, Created)

\* The pattern written with (.*) for (.+): group 1 may be empty.
GroupEnds_star(s, p) ==
    { k \in (p - 1)..Len(s) :
        /\ \A j \in p..k : Dot(s[j])
        /\ TailMatches(s, k + 1) }

\* The ends k of group 1 = s[p..k] for which the whole pattern matches at p:
\* (.+) takes one or more "." characters, then \s+created follows.
GroupEnds(s, p) ==
    { k \in p..Len(s) :
        /\ \A j \in p..k : Dot(s[j])
        /\ TailMatches(s, k + 1) }

SetMax(S) == CHOOSE x \in S : \A y \in S : y <= x
SetMin(S) == CHOOSE x \in S : \A y \in S : x <= y

\* The start positions at which the pattern matches.
MatchStarts(s) ==
    { p \in 1..(Len(s) + 1) : Caret(s, p) /\ GroupEnds(s, p) # {} }

NoMatch == [matched |-> FALSE, group1 |-> <<>>]

\* search: the leftmost start; "+" is greedy, so group 1 is the longest that
\* lets the rest match.
re_search(s) ==
    IF MatchStarts(s) = {} THEN NoMatch
    ELSE LET p == SetMin(MatchStarts(s))
         IN  [matched |-> TRUE, group1 |-> SubSeq(s, p, SetMax(GroupEnds(s, p)))]

-----------------------------------------------------------------------------
(* get_resource *)

NoOutcome == [kind |-> "none", value |-> <<>>, message |-> <<>>]
Return(v) == [kind |-> "return", value |-> v, message |-> <<>>]
Raise(m) == [kind |-> "raise", value |-> <<>>, message |-> m]

MessagePrefix ==
    <<"C", "a", "n", "n", "o", "t", SP, "g", "e", "t", SP,
      "r", "e", "s", "o", "u", "r", "c", "e", SP, "a", "s", SP,
      "i", "t", "s", SP, "c", "r", "e", "a", "t", "i", "o", "n", SP,
      "f", "a", "i", "l", "e", "d", ":", SP>>

MessageSuffix(n) ==
    IF n = "tf"
    THEN <<".", SP, "I", "t", SP, "m", "a", "y", SP,
           "a", "l", "r", "e", "a", "d", "y", SP, "e", "x", "i", "s", "t", ".">>
    ELSE <<>>

\* The message written without the f prefix: the placeholder stays as it is.
ErrorMessage_plain(n, out) ==
    MessagePrefix \o <<"{", "o", "u", "t", "}">> \o MessageSuffix(n)

\* f"Cannot get resource as its creation failed: {out}" (+ the TensorFlow suffix)
ErrorMessage(n, out) == MessagePrefix \o out \o MessageSuffix(n)

\* The body without the test for None: matches.group(1) on None is an
\* AttributeError, not the error of get_resource.
get_resource_unchecked(n, out) ==
    LET matches == re_search(out)
    IN  IF matches.matched
        THEN Return(matches.group1)
        ELSE [kind |-> "crash", value |-> <<>>,
              message |-> <<"A", "t", "t", "r", "i", "b", "u", "t", "e",
                            "E", "r", "r", "o", "r">>]

\* The TensorFlow notebook's definition searching with re.MULTILINE, the other
\* one as it is: ^ then matches at the start of every line.
get_resource_tf_multiline(n, out) ==
    LET starts == { p \in 1..(Len(out) + 1) :
                      /\ p = 1 \/ out[p - 1] = NL
                      /\ GroupEnds(out, p) # {} }
        matches == IF n # "tf" THEN re_search(out)
                   ELSE IF starts = {} THEN NoMatch
                   ELSE [matched |-> TRUE,
                         group1 |-> SubSeq(out, SetMin(starts),
                                           SetMax(GroupEnds(out, SetMin(starts))))]
    IN  IF matches.matched
        THEN Return(matches.group1)
        ELSE Raise(ErrorMessage(n, out))

\* The body of get_resource, for the standard output out of the captured object,
\* as defined in notebook n.
get_resource(n, out) ==
    LET matches == re_search(out)
    IN  IF matches.matched
        THEN Return(matches.group1)
        ELSE Raise(ErrorMessage(n, out))

-----------------------------------------------------------------------------
(* The other programs of the repository, not started *)

TrainerIdle == [size |-> 0, epochs |-> 0, proc |-> <<>>]
NotParsed == [kind |-> "none"]
ArgpIdle == [argv |-> <<>>, result |-> NotParsed]
KatibIdle == [pc |-> "off", args |-> <<>>, log |-> <<>>, observed |-> {}]
\* A notebook variable not assigned yet.
Nil == [id |-> 0]

MetaIdle ==
    [cell |-> 0, handed |-> {}, calls |-> <<>>,
     run |-> Nil, exec |-> Nil, data_set |-> Nil, model |-> Nil, metrics |-> Nil,
     app |-> Nil, m |-> Nil, execution_ids |-> {}, artifact_ids |-> {},
     executions |-> <<>>, artifacts |-> <<>>, events |-> {}]

NotLoaded == [loaded |-> FALSE, train |-> <<>>, test |-> <<>>]
DataIdle == [train |-> <<>>, test |-> <<>>, size |-> 0, shard |-> <<>>]

OthersIdle ==
    /\ trainer = TrainerIdle
    /\ argp = ArgpIdle
    /\ katib = KatibIdle
    /\ meta = MetaIdle
    /\ data = DataIdle

-----------------------------------------------------------------------------
(* The notebook cells *)

Undefined == [defined |-> FALSE, value |-> <<>>]
NoCapture == [defined |-> FALSE, stdout |-> <<>>]

Cmd(verb, arg) == [verb |-> verb, arg |-> arg]

\* The cells of the deployment part of each notebook, top to bottom.
RunOrder(n) ==
    IF n = "tf"
    THEN <<"create", "extract", "describe", "get pods", "get events", "logs", "delete">>
    ELSE <<"create", "extract", "get pods", "logs", "describe", "delete">>

Interactive == 0     \* cell: the cells are run by hand, in any order
Stopped == -1        \* cell: the top-to-bottom run has ended with an error

\* Cell c may be run now: by hand, or because the run has come to it.
Turn(c) ==
    \/ cell = Interactive
    \/ cell \in 1..Len(RunOrder(nb)) /\ RunOrder(nb)[cell] = c

\* An interactive session is cut off after MaxCmds commands.
CanIssue == cell # Interactive \/ Len(cmds) < MaxCmds

NextCell == IF cell = Interactive THEN Interactive ELSE cell + 1

\* The name the CLI prints for the resource of the manifest.
ResourceName == <<"a">>

\* kubectl create -f on the manifest, the resource existing or not: what is
\* left on the captured standard output, and whether the resource exists then.
\* With the resource there, nothing is created and no line says so.
KubectlCreate(exists) ==
    LET created == { [stdout |-> t, stderr |-> <<>>, exists |-> TRUE] :
                        t \in CreatedOutputs }
        failed == { [stdout |-> <<>>, stderr |-> e, exists |-> exists] :
                        e \in ErrorTexts }
    IN  IF exists THEN failed ELSE created \cup failed

\* The capture reading standard output and standard error as named.
Capture_separate(r) == {r.stdout}

\* What %%capture <x>_output --no-stderr binds as the standard output of a
\* `!` command. The kernel runs the command on a pseudo-terminal and prints
\* all it reads from it, what the command wrote to its standard error with
\* the rest; where it reads the two streams apart, only the standard output.
Capture(r) == {r.stdout, r.stdout \o r.stderr}

\* The deployment cells not run: the state the other programs start in.
NotebookIdle ==
    /\ nb = "hvd"
    /\ output = NoCapture
    /\ JOB = Undefined
    /\ pc = "idle"
    /\ ret = NoOutcome
    /\ prev = NoOutcome
    /\ cmds = <<>>
    /\ cluster = FALSE
    /\ existed = FALSE
    /\ errout = <<>>
    /\ inflight = {}
    /\ cell = Interactive

Init ==
    /\ nb \in {"hvd", "tf"}
    /\ output = NoCapture
    /\ JOB = Undefined
    /\ pc = "idle"
    /\ ret = NoOutcome
    /\ prev = NoOutcome
    /\ cmds = <<>>
    /\ cluster \in BOOLEAN
    /\ existed = FALSE
    /\ errout = <<>>
    /\ inflight = {}
    /\ cell = Interactive
    /\ OthersIdle

\* A `!` line: the command is issued and the cell waits for it to end.
Shell(c) ==
    /\ pc = "idle"
    /\ cmds' = Append(cmds, c)
    /\ inflight' = inflight \cup {Len(cmds) + 1}
    /\ pc' = "shell"

\* A `!` line ended with &: the cell does not wait for the command.
Shell_background(c) ==
    /\ pc = "idle"
    /\ cmds' = Append(cmds, c)
    /\ inflight' = inflight \cup {Len(cmds) + 1}
    /\ pc' = "idle"

\* %%capture <x>_output --no-stderr
\* ! kubectl create -f $KUBERNETES_FILE
CreateCell ==
    /\ Turn("create")
    /\ CanIssue
    /\ Shell(Cmd("create", <<>>))
    /\ UNCHANGED <<nb, output, JOB, ret, prev, cluster, existed, errout, cell>>
    /\ UNCHANGED others

\* The capture leaving its variable as it was when nothing was printed.
ShellReturns_keeping ==
    /\ pc = "shell"
    /\ LET c == cmds[Len(cmds)]
       IN  /\ IF c.verb = "create"
              THEN \E r \in KubectlCreate(cluster) :
                      /\ \E t \in Capture(r) :
                            output' = IF t = <<>> /\ output.defined THEN output
                                      ELSE [defined |-> TRUE, stdout |-> t]
                      /\ errout' = r.stderr
                      /\ cluster' = r.exists
                      /\ existed' = cluster
                      /\ ret' = NoOutcome
                      /\ prev' = NoOutcome
              ELSE /\ cluster' = IF c.verb = "delete" /\ c.arg = ResourceName
                                 THEN FALSE
                                 ELSE cluster
                   /\ UNCHANGED <<output, existed, errout, ret, prev>>
    /\ inflight' = inflight \ {Len(cmds)}
    /\ pc' = "idle"
    /\ cell' = NextCell
    /\ UNCHANGED <<nb, JOB, cmds>>
    /\ UNCHANGED others

\* The command the cell waits for ends; the capture cell binds its variable.
ShellReturns ==
    /\ pc = "shell"
    /\ LET c == cmds[Len(cmds)]
       IN  /\ IF c.verb = "create"
              THEN \E r \in KubectlCreate(cluster) :
                      /\ \E t \in Capture(r) :
                            output' = [defined |-> TRUE, stdout |-> t]
                      /\ errout' = r.stderr
                      /\ cluster' = r.exists
                      /\ existed' = cluster
                      /\ ret' = NoOutcome
                      /\ prev' = NoOutcome
              ELSE /\ cluster' = IF c.verb = "delete" /\ c.arg = ResourceName
                                 THEN FALSE
                                 ELSE cluster
                   /\ UNCHANGED <<output, existed, errout, ret, prev>>
    /\ inflight' = inflight \ {Len(cmds)}
    /\ pc' = "idle"
    /\ cell' = NextCell
    /\ UNCHANGED <<nb, JOB, cmds>>
    /\ UNCHANGED others

\* The call reading the captured stream to its end: nothing is left of it.
get_resource_call_consuming ==
    /\ Turn("extract")
    /\ pc = "idle"
    /\ output.defined
    /\ ret' = get_resource(nb, output.stdout)
    /\ prev' = ret
    /\ pc' = "called"
    /\ output' = [defined |-> TRUE, stdout |-> <<>>]
    /\ UNCHANGED <<nb, JOB, cmds, cluster, existed, errout, inflight, cell>>
    /\ UNCHANGED others

\* The call issuing the create command again when the pattern does not match.
get_resource_call_retrying ==
    /\ Turn("extract")
    /\ pc = "idle"
    /\ output.defined
    /\ ret' = get_resource(nb, output.stdout)
    /\ prev' = ret
    /\ pc' = "called"
    /\ cmds' = IF re_search(output.stdout).matched
               THEN cmds
               ELSE Append(cmds, Cmd("create", <<>>))
    /\ UNCHANGED <<nb, output, JOB, cluster, existed, errout, inflight, cell>>
    /\ UNCHANGED others

\* The call storing the name in the job variable itself (a global statement).
get_resource_call_global ==
    /\ Turn("extract")
    /\ pc = "idle"
    /\ output.defined
    /\ ret' = get_resource(nb, output.stdout)
    /\ prev' = ret
    /\ pc' = "called"
    /\ JOB' = IF re_search(output.stdout).matched
              THEN [defined |-> TRUE, value |-> re_search(output.stdout).group1]
              ELSE Undefined
    /\ UNCHANGED <<nb, output, cmds, cluster, existed, errout, inflight, cell>>
    /\ UNCHANGED others

\* The call get_resource(<x>_output): the right-hand side of the assignment.
get_resource_call ==
    /\ Turn("extract")
    /\ pc = "idle"
    /\ output.defined
    /\ ret' = get_resource(nb, output.stdout)
    /\ prev' = ret
    /\ pc' = "called"
    /\ UNCHANGED <<nb, output, JOB, cmds, cluster, existed, errout, inflight, cell>>
    /\ UNCHANGED others

\* The cell catching the exception and clearing the variable.
AssignJob_clearing ==
    /\ pc = "called"
    /\ JOB' = IF ret.kind = "return"
              THEN [defined |-> TRUE, value |-> ret.value]
              ELSE Undefined
    /\ pc' = "idle"
    /\ cell' = IF cell = Interactive THEN Interactive
               ELSE IF ret.kind = "return" THEN cell + 1
               ELSE Stopped
    /\ UNCHANGED <<nb, output, ret, prev, cmds, cluster, existed, errout, inflight>>
    /\ UNCHANGED others

\* The run going on to the next cell after a raised exception.
AssignJob_continuing ==
    /\ pc = "called"
    /\ JOB' = IF ret.kind = "return"
              THEN [defined |-> TRUE, value |-> ret.value]
              ELSE JOB
    /\ pc' = "idle"
    /\ cell' = NextCell
    /\ UNCHANGED <<nb, output, ret, prev, cmds, cluster, existed, errout, inflight>>
    /\ UNCHANGED others

\* <X>_JOB = <the value returned>; a raised exception ends the cell, and a
\* top-to-bottom run with it.
AssignJob ==
    /\ pc = "called"
    /\ JOB' = IF ret.kind = "return"
              THEN [defined |-> TRUE, value |-> ret.value]
              ELSE JOB
    /\ pc' = "idle"
    /\ cell' = IF cell = Interactive THEN Interactive
               ELSE IF ret.kind = "return" THEN cell + 1
               ELSE Stopped
    /\ UNCHANGED <<nb, output, ret, prev, cmds, cluster, existed, errout, inflight>>
    /\ UNCHANGED others

\* The cell written with & after the command.
DescribeCell_background ==
    /\ Turn("describe")
    /\ JOB.defined
    /\ CanIssue
    /\ Shell_background(Cmd("describe", JOB.value))
    /\ cell' = NextCell
    /\ UNCHANGED <<nb, output, JOB, ret, prev, cluster, existed, errout>>
    /\ UNCHANGED others

\* ! kubectl describe $<X>_JOB
DescribeCell ==
    /\ Turn("describe")
    /\ JOB.defined
    /\ CanIssue
    /\ Shell(Cmd("describe", JOB.value))
    /\ UNCHANGED <<nb, output, JOB, ret, prev, cluster, existed, errout, cell>>
    /\ UNCHANGED others

\* The cell written with --dry-run after the name: nothing is deleted.
DeleteCell_dry_run ==
    /\ Turn("delete")
    /\ JOB.defined
    /\ CanIssue
    /\ Shell(Cmd("delete", JOB.value \o <<SP, "-", "-", "d", "r", "y", "-", "r", "u", "n">>))
    /\ UNCHANGED <<nb, output, JOB, ret, prev, cluster, existed, errout, cell>>
    /\ UNCHANGED others

\* ! kubectl delete $<X>_JOB
DeleteCell ==
    /\ Turn("delete")
    /\ JOB.defined
    /\ CanIssue
    /\ Shell(Cmd("delete", JOB.value))
    /\ UNCHANGED <<nb, output, JOB, ret, prev, cluster, existed, errout, cell>>
    /\ UNCHANGED others

\* ! kubectl get pods -l ... / ! kubectl get events ... / ! kubectl logs ...:
\* the cells that name the pods themselves, not the job variable.
WatchCell ==
    /\ cell # Interactive
    /\ \E v \in {"get pods", "get events", "logs"} :
          /\ Turn(v)
          /\ Shell(Cmd(v, <<>>))
    /\ UNCHANGED <<nb, output, JOB, ret, prev, cluster, existed, errout, cell>>
    /\ UNCHANGED others

Next ==
    \/ CreateCell
    \/ ShellReturns
    \/ get_resource_call
    \/ AssignJob
    \/ DescribeCell
    \/ DeleteCell

Spec == Init /\ [][Next]_vars

\* The extractor alone, on every text of the bounded set.
InitText ==
    /\ nb \in {"hvd", "tf"}
    /\ output \in { [defined |-> TRUE, stdout |-> t] : t \in Texts }
    /\ JOB = Undefined
    /\ pc = "idle"
    /\ ret = NoOutcome
    /\ prev = NoOutcome
    /\ cmds = <<>>
    /\ cluster = FALSE
    /\ existed = FALSE
    /\ errout = <<>>
    /\ inflight = {}
    /\ cell = Interactive
    /\ OthersIdle

NextText ==
    \/ get_resource_call
    \/ AssignJob

SpecText == InitText /\ [][NextText]_vars

\* A top-to-bottom run of the deployment cells that stops at the first error,
\* in a session that may hold a job name and a resource from earlier on.
StaleJob == [defined |-> TRUE, value |-> <<"o", "l", "d">>]

InitRun ==
    /\ nb \in {"hvd", "tf"}
    /\ output = NoCapture
    /\ JOB \in {Undefined, StaleJob}
    /\ pc = "idle"
    /\ ret = NoOutcome
    /\ prev = NoOutcome
    /\ cmds = <<>>
    /\ cluster \in BOOLEAN
    /\ existed = FALSE
    /\ errout = <<>>
    /\ inflight = {}
    /\ cell = 1
    /\ OthersIdle

NextRun ==
    \/ CreateCell
    \/ ShellReturns
    \/ get_resource_call
    \/ AssignJob
    \/ DescribeCell
    \/ DeleteCell
    \/ WatchCell

SpecRun == InitRun /\ [][NextRun]_vars

\* The same run in which every external command terminates and the kernel
\* goes on to the next cell.
SpecRunFair == SpecRun /\ WF_vars(NextRun)

-----------------------------------------------------------------------------
(* The vocabulary of the claims: lines, words, forms of a line *)

\* The captured standard output the extractor was called on.
Text == output.stdout

\* get_resource has been called on the current captured object.
Called == ret.kind # "none"

HasAt(s, i, lit) ==
    /\ i >= 1
    /\ i + Len(lit) - 1 <= Len(s)
    /\ SubSeq(s, i, i + Len(lit) - 1) = lit

Contains(s, lit) == \E i \in 1..(Len(s) + 1) : HasAt(s, i, lit)

EndsWith(s, lit) == HasAt(s, Len(s) - Len(lit) + 1, lit)

\* The positions at which a line of s starts.
LineStarts(s) == { p \in 1..(Len(s) + 1) : p = 1 \/ s[p - 1] = NL }

\* The last position of the line that starts at p (p - 1 for an empty line).
LineEnd(s, p) ==
    SetMin({ q \in (p - 1)..Len(s) : q = Len(s) \/ s[q + 1] = NL })

LineAt(s, p) == SubSeq(s, p, LineEnd(s, p))

LinesOf(s) == { LineAt(s, p) : p \in LineStarts(s) }

SpaceCreated == <<SP>> \o Created

\* A line of the form '<name> created', and its <name>.
CreatedLine(l) == Len(l) > Len(SpaceCreated) /\ EndsWith(l, SpaceCreated)
NameOf(l) == SubSeq(l, 1, Len(l) - Len(SpaceCreated))

CreatedLineStarts(s) == { p \in LineStarts(s) : CreatedLine(LineAt(s, p)) }

-----------------------------------------------------------------------------
(* C1 *)

\* C1: whenever the captured text has a line '<name> created', first line or
\* not, get_resource returns the <name> of such a line.
C1_ReturnsNameOfCreatedLine ==
    (Called /\ CreatedLineStarts(Text) # {})
        => /\ ret.kind = "return"
           /\ \E p \in CreatedLineStarts(Text) : ret.value = NameOf(LineAt(Text, p))

-----------------------------------------------------------------------------
(* C2 *)

\* C2 as stated: when no line of the captured text ends in 'created',
\* get_resource raises and returns no name.
C2_RaisesWhenNoLineEndsInCreated ==
    (Called /\ \A l \in LinesOf(Text) : ~EndsWith(l, Created))
        => ret.kind = "raise" /\ ret.value = <<>>

\* No occurrence of 'created' in s has a whitespace character right before it.
NoSpaceBeforeCreated(s) ==
    \A i \in 2..(Len(s) + 1) : ~(IsSpace(s[i - 1]) /\ HasAt(s, i, Created))

\* C2 amended: when no occurrence of 'created' in the captured text is
\* immediately preceded by a whitespace character, get_resource raises and
\* returns no name.
C2_RaisesWhenNoSpaceBeforeCreated ==
    (Called /\ NoSpaceBeforeCreated(Text))
        => ret.kind = "raise" /\ ret.value = <<>>

\* The word occurs, glued to what precedes it, and the call raised.
C2_Witness ==
    /\ Called
    /\ NoSpaceBeforeCreated(Text)
    /\ Contains(Text, Created)
    /\ ret.kind = "raise"

-----------------------------------------------------------------------------
(* C3 *)

\* C3: whenever get_resource raises, in either notebook, the message of the
\* error contains the whole captured standard output, unchanged and contiguous.
C3_MessageContainsOutput ==
    ret.kind = "raise" => Contains(ret.message, Text)

\* A raise on a text of several lines, in the notebook whose message goes on
\* after the text.
C3_Witness ==
    /\ ret.kind = "raise"
    /\ nb = "tf"
    /\ Cardinality(LineStarts(Text)) >= 2
    /\ Contains(Text, Created)

-----------------------------------------------------------------------------
(* C4 *)

\* C4: when several lines have the form '<name> created', get_resource returns
\* the name of the first of them in the text, wherever that line stands.
C4_ReturnsFirstCreatedLine ==
    (Called /\ Cardinality(CreatedLineStarts(Text)) >= 2)
        => /\ ret.kind = "return"
           /\ ret.value = NameOf(LineAt(Text, SetMin(CreatedLineStarts(Text))))

-----------------------------------------------------------------------------
(* C5 *)

\* s has, from position p on, the name, then one or more whitespace characters,
\* then the literal 'created'.
NameThenCreatedAt(s, p, name) ==
    /\ HasAt(s, p, name)
    /\ \E n \in 1..Len(s) :
          /\ \A j \in (p + Len(name))..(p + Len(name) + n - 1) :
                j <= Len(s) /\ IsSpace(s[j])
          /\ HasAt(s, p + Len(name) + n, Created)

\* C5: whenever get_resource returns a name, the name is non-empty and the
\* captured text has, starting at the beginning of a line, the name, one or
\* more whitespace characters right after it, and then the literal 'created'.
C5_NameStandsBeforeCreated ==
    ret.kind = "return"
        => /\ ret.value # <<>>
           /\ \E p \in LineStarts(Text) : NameThenCreatedAt(Text, p, ret.value)

\* A returned name with more than one whitespace character after it.
C5_Witness ==
    /\ ret.kind = "return"
    /\ \E p \in LineStarts(Text) :
          /\ NameThenCreatedAt(Text, p, ret.value)
          /\ p + Len(ret.value) + 1 <= Len(Text)
          /\ IsSpace(Text[p + Len(ret.value) + 1])

-----------------------------------------------------------------------------
(* C6 *)

NoWhitespace(name) == \A i \in 1..Len(name) : ~IsSpace(name[i])

\* The first line is '<name> created', the name non-empty and free of
\* whitespace, and one or more lines follow, none of which holds the word.
FirstLineCreatedThenUnrelated(s) ==
    /\ CreatedLine(LineAt(s, 1))
    /\ NoWhitespace(NameOf(LineAt(s, 1)))
    /\ Cardinality(LineStarts(s)) >= 2
    /\ \A p \in LineStarts(s) \ {1} : ~Contains(LineAt(s, p), Created)

\* C6: when the first line of the captured text is '<name> created' (a name
\* without whitespace, one separating space) and lines that have nothing to do
\* with creation follow, get_resource returns <name>.
C6_FirstLineThenOtherLines ==
    (Called /\ FirstLineCreatedThenUnrelated(Text))
        => ret = Return(NameOf(LineAt(Text, 1)))

\* 'a created' followed by a line of other text, and the name returned.
C6_Witness ==
    /\ Called
    /\ FirstLineCreatedThenUnrelated(Text)
    /\ \E p \in LineStarts(Text) \ {1} : LineAt(Text, p) # <<>>
    /\ ret.kind = "return"

-----------------------------------------------------------------------------
(* C7 *)

\* The error get_resource raises itself, as opposed to any other failure.
CreationNotConfirmed(r) ==
    /\ r.kind = "raise"
    /\ HasAt(r.message, 1, MessagePrefix)

\* C7: on the empty captured text, and on any captured text that does not
\* hold the word 'created' at all, get_resource ends with the
\* creation-not-confirmed error, and with no other failure.
C7_RaisesWithoutTheWord ==
    (Called /\ ~Contains(Text, Created)) => CreationNotConfirmed(ret)

\* The empty text, and the error raised on it.
C7_Witness ==
    /\ Called
    /\ Text = <<>>
    /\ CreationNotConfirmed(ret)

-----------------------------------------------------------------------------
(* C8 *)

\* C8: a second call of get_resource on the same captured output ends as the
\* first did: the same name returned, or the same error with the same message.
C8_SecondCallSameOutcome ==
    prev.kind # "none" => ret = prev

\* Two calls on one captured object, both returning a name.
C8_Witness ==
    /\ prev.kind = "return"
    /\ ret.kind = "return"

-----------------------------------------------------------------------------
(* C9 *)

\* The step that is the call of get_resource.
IsCall == pc = "idle" /\ pc' = "called"

\* C9: get_resource ends in one of two ways, decided by the pattern search: a
\* non-empty name when the pattern matches, the creation-not-confirmed error
\* and no value when it does not; and the call issues no create command.
C9_TwoOutcomesNoRetry ==
    /\ [](Called =>
            \/ /\ re_search(Text).matched
               /\ ret.kind = "return"
               /\ ret.value # <<>>
            \/ /\ ~re_search(Text).matched
               /\ CreationNotConfirmed(ret)
               /\ ret.value = <<>>)
    /\ [][IsCall =>
            { i \in DOMAIN cmds' : cmds'[i].verb = "create" }
                = { i \in DOMAIN cmds : cmds[i].verb = "create" }]_vars

\* The create command was issued once, and the call on its output raised.
C9_Witness ==
    /\ pc = "called"
    /\ ret.kind = "raise"
    /\ Cardinality({ i \in DOMAIN cmds : cmds[i].verb = "create" }) = 1

-----------------------------------------------------------------------------
(* C10 *)

\* C10: the call of get_resource, whether it returns or raises, leaves the
\* captured output and the other notebook variables as they were and issues
\* no external command.
C10_CallChangesNothing ==
    [][IsCall => output' = output /\ JOB' = JOB /\ nb' = nb /\ cmds' = cmds]_vars

\* A call that raised, made when the job variable was already set and
\* commands had been issued.
C10_Witness ==
    /\ pc = "called"
    /\ ret.kind = "raise"
    /\ JOB.defined
    /\ Len(cmds) >= 2

-----------------------------------------------------------------------------
(* C11 *)

\* C11: when the resource already existed as the create cell ran (the cell run
\* a second time with no delete in between, for one), the call of get_resource
\* on the output of that cell raises and returns no name.
C11_RaisesWhenResourceExisted ==
    (Called /\ existed) => ret.kind = "raise"

\* The create cell was run twice, the first run created the resource, and the
\* call on the output of the second run has raised.
C11_Witness ==
    /\ pc = "called"
    /\ existed
    /\ ret.kind = "raise"
    /\ Cardinality({ i \in DOMAIN cmds : cmds[i].verb = "create" }) = 2
    /\ \A i \in DOMAIN cmds : cmds[i].verb = "create"

-----------------------------------------------------------------------------
(* C12 *)

UsesJob(c) == c.verb \in {"describe", "delete"}

\* C12: in a top-to-bottom run that stops at the first error, a describe or
\* delete command is issued only after the call of get_resource on the output
\* of this run's create cell has returned, and with the returned name.
C12_DescribeDeleteUseReturnedName ==
    \A i \in DOMAIN cmds :
        UsesJob(cmds[i]) =>
            /\ \E j \in 1..(i - 1) : cmds[j].verb = "create"
            /\ output.defined
            /\ ret = get_resource(nb, output.stdout)
            /\ ret.kind = "return"
            /\ cmds[i].arg = ret.value

\* The run has come to its end in a session that held an older job name:
\* both commands were issued, neither with the older name.
C12_Witness ==
    /\ cell = Len(RunOrder(nb)) + 1
    /\ \E i \in DOMAIN cmds : cmds[i].verb = "describe"
    /\ \E i \in DOMAIN cmds : cmds[i].verb = "delete"
    /\ JOB # StaleJob
    /\ \A i \in DOMAIN cmds : cmds[i].arg # StaleJob.value

-----------------------------------------------------------------------------
(* C13 *)

\* The place of a cell in the notebook.
Place(c) == CHOOSE k \in 1..Len(RunOrder(nb)) : RunOrder(nb)[k] = c

\* C13: the cells run strictly one after the other. No two external commands
\* are ever in flight; a command is issued, and get_resource called, only when
\* the command before has ended; and within one run the commands are issued in
\* the order of the cells, create before the call of get_resource, the call
\* before describe, describe before delete.
C13_StrictlySequential ==
    /\ [](/\ Cardinality(inflight) <= 1
          /\ \A i, j \in DOMAIN cmds :
                i < j => Place(cmds[i].verb) < Place(cmds[j].verb)
          /\ Called =>
                /\ \E i \in DOMAIN cmds : cmds[i].verb = "create"
                /\ \A i \in DOMAIN cmds :
                      Place(cmds[i].verb) < Place("extract") \/ pc # "called"
          /\ \A i \in DOMAIN cmds :
                Place(cmds[i].verb) > Place("extract") => Called /\ pc # "called")
    /\ [][(cmds' # cmds \/ IsCall) => inflight = {}]_vars

\* The delete command, the last of the run, is in flight alone, all the
\* commands of the cells above it having been issued and ended.
C13_Witness ==
    /\ pc = "shell"
    /\ inflight = {Len(cmds)}
    /\ Len(cmds) = Len(RunOrder(nb)) - 1
    /\ cmds[Len(cmds)].verb = "delete"

-----------------------------------------------------------------------------
(* The Horovod trainer: train_hvd, run once in each process *)

MaxSize == 3       \* processes horovod.spark.run starts, at most
MaxEpochs == 2     \* value of --epochs, at most
MaxAcc == 2        \* levels of the monitored accuracy

\* The rank of the process at place i of trainer.proc.
Rank(i) == i - 1

Proc(p, ckpt, epoch, best, written) ==
    [pc |-> p, ckpt |-> ckpt, epoch |-> epoch, best |-> best, written |-> written]

\* horovod.spark.run(train_hvd, args=(...)): one process for each rank.
HorovodRun ==
    /\ trainer = TrainerIdle
    /\ \E n \in 1..MaxSize, e \in 0..MaxEpochs :
          trainer' = [size |-> n, epochs |-> e,
                      proc |-> [i \in 1..n |-> Proc("init", FALSE, 0, 0, FALSE)]]
    /\ UNCHANGED <<notebook, argp, katib, meta, data>>

\* The checkpoint callback appended in every process.
Callbacks_allranks(i) ==
    /\ i \in 1..trainer.size
    /\ trainer.proc[i].pc = "init"
    /\ trainer' = [trainer EXCEPT !.proc[i] = Proc("fit", TRUE, 0, 0, FALSE)]
    /\ UNCHANGED <<notebook, argp, katib, meta, data>>

\* callbacks = [...]; if hvd.rank() == 0: callbacks.append(ModelCheckpoint(...))
Callbacks(i) ==
    /\ i \in 1..trainer.size
    /\ trainer.proc[i].pc = "init"
    /\ trainer' = [trainer EXCEPT !.proc[i] = Proc("fit", Rank(i) = 0, 0, 0, FALSE)]
    /\ UNCHANGED <<notebook, argp, katib, meta, data>>

\* One epoch of model.fit; at its end ModelCheckpoint(monitor='accuracy',
\* mode='max', save_best_only=True), where registered, writes the file when
\* the accuracy is above the best so far.
Epoch(i) ==
    /\ i \in 1..trainer.size
    /\ trainer.proc[i].pc = "fit"
    /\ trainer.proc[i].epoch < trainer.epochs
    /\ \E acc \in 1..MaxAcc :
          LET q == trainer.proc[i]
              saves == q.ckpt /\ acc > q.best
          IN  trainer' = [trainer EXCEPT !.proc[i] =
                            Proc("fit", q.ckpt, q.epoch + 1,
                                 IF saves THEN acc ELSE q.best,
                                 q.written \/ saves)]
    /\ UNCHANGED <<notebook, argp, katib, meta, data>>

\* if hvd.rank() == 0: with open(ckpt_file, 'rb') as f: return ..., f.read()
\* The other ranks return None; open raises where no file was written.
FitReturns(i) ==
    /\ i \in 1..trainer.size
    /\ trainer.proc[i].pc = "fit"
    /\ trainer.proc[i].epoch = trainer.epochs
    /\ LET q == trainer.proc[i]
       IN  trainer' = [trainer EXCEPT !.proc[i].pc =
                          IF Rank(i) # 0 THEN "none"
                          ELSE IF q.written THEN "bytes" ELSE "raise"]
    /\ UNCHANGED <<notebook, argp, katib, meta, data>>

InitHvd == NotebookIdle /\ OthersIdle

NextHvd ==
    \/ HorovodRun
    \/ \E i \in 1..MaxSize : Callbacks(i)
    \/ \E i \in 1..MaxSize : Epoch(i)
    \/ \E i \in 1..MaxSize : FitReturns(i)

SpecHvd == InitHvd /\ [][NextHvd]_vars

-----------------------------------------------------------------------------
(* C14 *)

\* C14: in the Horovod trainer the checkpoint callback is registered in the
\* process of rank 0 and in no other, and no process of another rank writes a
\* checkpoint file.
C14_CheckpointOnlyInRankZero ==
    \A i \in 1..trainer.size :
        LET q == trainer.proc[i]
        IN  /\ (q.ckpt \/ q.written) => Rank(i) = 0
            /\ (Rank(i) = 0 /\ q.pc # "init") => q.ckpt

\* Several processes have trained to the end: rank 0 wrote its checkpoint
\* and returned it, the others wrote none.
C14_Witness ==
    /\ trainer.size >= 2
    /\ trainer.epochs >= 1
    /\ trainer.proc[1].pc = "bytes"
    /\ trainer.proc[1].written
    /\ \A i \in 2..trainer.size :
          trainer.proc[i].pc = "none" /\ ~trainer.proc[i].written

-----------------------------------------------------------------------------
(* The Horovod trainer: its command line *)

MaxArgs == 3       \* tokens on the command line, at most

LearningRateFlag == <<"-", "-", "l", "e", "a", "r", "n", "i", "n", "g", "_", "r", "a", "t", "e">>
BatchSizeFlag == <<"-", "-", "b", "a", "t", "c", "h", "_", "s", "i", "z", "e">>
EpochsFlag == <<"-", "-", "e", "p", "o", "c", "h", "s">>

OptionStrings == {LearningRateFlag, BatchSizeFlag, EpochsFlag}

\* The attribute of the namespace an option is stored in.
Dest(t) ==
    IF t = LearningRateFlag THEN "learning_rate"
    ELSE IF t = BatchSizeFlag THEN "batch_size"
    ELSE "epochs"

\* The tokens the command lines are made of: the options, an option the
\* parser does not know, and values.
Tokens ==
    OptionStrings \cup
    { <<"-", "-", "x">>, <<"0", ".", "0", "0", "1">>, <<"2">>, <<"-", "1">>, <<"x">> }

Argvs == UNION { [1..n -> Tokens] : n \in 0..MaxArgs }

DigitChars == <<"0", "1", "2", "3", "4", "5", "6", "7", "8", "9">>

IsDigit(c) == \E n \in 1..10 : DigitChars[n] = c
DigitVal(c) == (CHOOSE n \in 1..10 : DigitChars[n] = c) - 1

IsDigits(t) == Len(t) >= 1 /\ \A i \in 1..Len(t) : IsDigit(t[i])

RECURSIVE Decimal(_)
Decimal(t) ==
    IF t = <<>> THEN 0
    ELSE 10 * Decimal(SubSeq(t, 1, Len(t) - 1)) + DigitVal(t[Len(t)])

IntValue(n) == [type |-> "int", n |-> n, text |-> <<>>]
FloatValue(t) == [type |-> "float", n |-> 0, text |-> t]

\* int(t) on a text: an optional sign and decimal digits; anything else
\* (a point among the digits, a letter) is a ValueError.
int(t) ==
    LET signed == t # <<>> /\ t[1] \in {"+", "-"}
        body == IF signed THEN Tail(t) ELSE t
    IN  IF IsDigits(body)
        THEN [ok |-> TRUE,
              value |-> IntValue(IF signed /\ t[1] = "-" THEN 0 - Decimal(body)
                                 ELSE Decimal(body))]
        ELSE [ok |-> FALSE, value |-> IntValue(0)]

\* The parser's test for a negative number: -\d+ or -\d*\.\d+
NegativeNumber(t) ==
    /\ Len(t) >= 2
    /\ t[1] = "-"
    /\ \/ IsDigits(Tail(t))
       \/ \E i \in 2..(Len(t) - 1) :
             /\ t[i] = "."
             /\ \A j \in 2..Len(t) : j # i => IsDigit(t[j])

\* A token the parser takes for an option and never for the value of one.
OptionLike(t) == t # <<>> /\ t[1] = "-" /\ ~NegativeNumber(t)

\* The defaults of add_argument: 0.001 is no text, so type is not applied to it.
Defaults ==
    [learning_rate |-> FloatValue(<<"0", ".", "0", "0", "1">>),
     batch_size |-> IntValue(64),
     epochs |-> IntValue(5)]

Parsed(ns, extras) == [kind |-> "args", args |-> ns, extras |-> extras, status |-> 0]

\* parser.error(...): the usage and the message on standard error, then
\* SystemExit with status 2.
ParserError(m) == [kind |-> "exit", args |-> Defaults, extras |-> <<>>, status |-> 2]

\* type=int, in all three add_argument calls.
Convert(t, v) == int(v)

\* parse_known_args from token i on: a known option takes the next token as
\* its value and converts it; what the parser does not know goes to the extras.
RECURSIVE ParseFrom(_, _, _, _)
ParseFrom(argv, i, ns, extras) ==
    IF i > Len(argv) THEN Parsed(ns, extras)
    ELSE IF argv[i] \in OptionStrings
    THEN IF i + 1 <= Len(argv) /\ ~OptionLike(argv[i + 1])
         THEN LET v == Convert(argv[i], argv[i + 1])
              IN  IF v.ok
                  THEN ParseFrom(argv, i + 2,
                                 [ns EXCEPT ![Dest(argv[i])] = v.value], extras)
                  ELSE ParserError("invalid int value")
         ELSE ParserError("expected one argument")
    ELSE ParseFrom(argv, i + 1, ns, Append(extras, argv[i]))

parse_known_args(argv) == ParseFrom(argv, 1, Defaults, <<>>)

\* args, _ = parser.parse_known_args()
ParseArgs ==
    /\ argp.result = NotParsed
    /\ argp' = [argp EXCEPT !.result = parse_known_args(argp.argv)]
    /\ UNCHANGED <<notebook, trainer, katib, meta, data>>

InitArgs ==
    /\ NotebookIdle
    /\ trainer = TrainerIdle
    /\ argp \in { [argv |-> a, result |-> NotParsed] : a \in Argvs }
    /\ katib = KatibIdle
    /\ meta = MetaIdle
    /\ data = DataIdle

NextArgs == ParseArgs

SpecArgs == InitArgs /\ [][NextArgs]_vars

-----------------------------------------------------------------------------
(* C15 *)

\* The command line gives the option --learning_rate the value 0.001.
LearningRateGiven ==
    \E i \in 1..(Len(argp.argv) - 1) :
        /\ argp.argv[i] = LearningRateFlag
        /\ argp.argv[i + 1] = <<"0", ".", "0", "0", "1">>
        /\ \A j \in 1..Len(argp.argv) : j \notin {i, i + 1} => ~OptionLike(argp.argv[j])

\* C15: the trainer accepts the command line --learning_rate 0.001: the
\* value is parsed, learning_rate is 0.001, and the parser does not exit.
C15_AcceptsLearningRate ==
    (LearningRateGiven /\ argp.result # NotParsed) =>
        /\ argp.result.kind = "args"
        /\ argp.result.args.learning_rate = FloatValue(<<"0", ".", "0", "0", "1">>)

-----------------------------------------------------------------------------
(* The Katib experiment on the TensorFlow trainer *)

MaxLevel == 4      \* levels of the evaluated loss and accuracy above zero

\* The evaluated values, in ten-thousandths.
Levels == { (k * 10000) \div MaxLevel : k \in 0..MaxLevel }

\* objective: objectiveMetricName and additionalMetricNames
ObjectiveMetricName == <<"V", "a", "l", "i", "d", "a", "t", "i", "o", "n", "-", "a", "c", "c", "u", "r", "a", "c", "y">>
AdditionalMetricNames == { <<"T", "r", "a", "i", "n", "-", "a", "c", "c", "u", "r", "a", "c", "y">> }
MetricNames == {ObjectiveMetricName} \cup AdditionalMetricNames

\* parameters: the names and the ends of the feasible spaces
HyperParameters ==
    { <<<<"-", "-", "l", "e", "a", "r", "n", "i", "n", "g", "-", "r", "a", "t", "e">>, lr, <<"-", "-", "m", "o", "m", "e", "n", "t", "u", "m">>, mo>> :
        lr \in { <<"0", ".", "3">>, <<"0", ".", "4">> },
        mo \in { <<"0", ".", "6">>, <<"0", ".", "7">> } }

RECURSIVE Digits(_)
Digits(n) ==
    IF n < 10 THEN <<DigitChars[n + 1]>>
    ELSE Digits(n \div 10) \o <<DigitChars[(n % 10) + 1]>>

\* "{:.4f}".format(v) for v of n ten-thousandths.
Format4f(n) ==
    Digits(n \div 10000) \o <<".">> \o
    <<DigitChars[((n \div 1000) % 10) + 1], DigitChars[((n \div 100) % 10) + 1],
      DigitChars[((n \div 10) % 10) + 1], DigitChars[(n % 10) + 1]>>

\* logging.info(message) on the root logger, in the default format.
LogRecord(message) == <<"I", "N", "F", "O", ":", "r", "o", "o", "t", ":">> \o message

\* logging.info("loss={:.4f}".format(eval_loss))
\* logging.info("accuracy={:.4f}".format(eval_acc))
LoggedMetrics(loss, acc) ==
    << LogRecord(<<"l", "o", "s", "s">> \o <<"=">> \o Format4f(loss)),
       LogRecord(<<"a", "c", "c", "u", "r", "a", "c", "y">> \o <<"=">> \o Format4f(acc)) >>

\* A character a metric name is made of.
KeyChar(c) == c \notin {":", "=", ".", SP}

\* The key of a key=value entry of the log: the name that stands before the
\* first "=" (the empty text where there is no "=").
KeyOf(line) ==
    LET eqs == { i \in 1..Len(line) : line[i] = "=" }
    IN  IF eqs = {} THEN <<>>
        ELSE LET e == SetMin(eqs)
                 b == SetMin({ j \in 1..e : \A k \in j..(e - 1) : KeyChar(line[k]) })
             IN  SubSeq(line, b, e - 1)

\* The experiment starts a trial: the TFJob of the template, with the
\* hyperparameters as the arguments of /mnist.py.
StartTrial ==
    /\ katib.pc = "off"
    /\ \E h \in HyperParameters :
          katib' = [katib EXCEPT !.pc = "running", !.args = h]
    /\ UNCHANGED <<notebook, trainer, argp, meta, data>>

\* main() of the trainer, to its end: fit, evaluate, and the two log entries.
TrainerMain ==
    /\ katib.pc = "running"
    /\ \E eval_loss \in Levels, eval_acc \in Levels :
          katib' = [katib EXCEPT !.pc = "logged",
                                 !.log = LoggedMetrics(eval_loss, eval_acc)]
    /\ UNCHANGED <<notebook, trainer, argp, meta, data>>

\* The metrics collector: of the metrics the experiment names, those that
\* are the key of an entry of the log.
CollectMetrics ==
    /\ katib.pc = "logged"
    /\ katib' = [katib EXCEPT
                   !.pc = "collected",
                   !.observed = { m \in MetricNames :
                                    \E i \in 1..Len(katib.log) : KeyOf(katib.log[i]) = m }]
    /\ UNCHANGED <<notebook, trainer, argp, meta, data>>

InitKatib == NotebookIdle /\ OthersIdle

NextKatib ==
    \/ StartTrial
    \/ TrainerMain
    \/ CollectMetrics

SpecKatib == InitKatib /\ [][NextKatib]_vars

-----------------------------------------------------------------------------
(* C16 *)

\* C16: every metric the experiment names, the objective metric and the
\* additional ones, is the key of a key=value entry the trainer has logged
\* once it has evaluated the model.
C16_NamedMetricsAreLogged ==
    katib.pc \in {"logged", "collected"} =>
        \A m \in MetricNames :
            \E i \in 1..Len(katib.log) : KeyOf(katib.log[i]) = m

-----------------------------------------------------------------------------
(* The metadata notebook: add_suffix *)

MaxUuids == 5      \* UUIDs uuid4 can hand out
MaxCalls == 3      \* calls of add_suffix made by hand

HexChars ==
    <<"0", "1", "2", "3", "4", "5", "6", "7", "8", "9", "a", "b", "c", "d", "e", "f">>

\* UUID(...).hex of the version-4 UUID whose random bits are u: 32 hexadecimal
\* digits, the 13th the version, the 17th the variant.
hex(u) ==
    [i \in 1..32 |->
        IF i = 13 THEN "4"
        ELSE IF i = 17 THEN "8"
        ELSE IF i = 31 THEN HexChars[((u \div 16) % 16) + 1]
        ELSE IF i = 32 THEN HexChars[(u % 16) + 1]
        ELSE "0"]

\* uuid4(): a UUID that was not handed out before.
uuid4 == (0..(MaxUuids - 1)) \ meta.handed

\* The suffix made once, when the function is defined.
add_suffix_once(name, u) == name \o <<"_">> \o hex(0)

\* return f"{name}_{uuid4().hex}", u being what uuid4() returned
add_suffix(name, u) == name \o <<"_">> \o hex(u)

\* The notebook after a call of add_suffix(name) in which uuid4() returned u.
AfterCall(mt, name, u) ==
    [mt EXCEPT !.handed = @ \cup {u},
               !.calls = Append(@, [name |-> name, result |-> add_suffix(name, u)])]

\* The names the notebook suffixes.
SuffixNames == { <<"r", "u", "n">>, <<"e", "x", "e", "c", "u", "t", "i", "o", "n">>, <<"d", "s">>, <<"m", "o", "d", "e", "l">> }

\* add_suffix called by hand.
AddSuffixCall ==
    /\ Len(meta.calls) < MaxCalls
    /\ \E name \in SuffixNames, u \in uuid4 : meta' = AfterCall(meta, name, u)
    /\ UNCHANGED <<notebook, trainer, argp, katib, data>>

-----------------------------------------------------------------------------
(* The metadata notebook: its cells and the metadata store *)

\* version=None
NoVersion == <<>>
\* run=None
NoRun == <<>>

Artifact(type, name, uri, version) ==
    [type |-> type, name |-> name, uri |-> uri, version |-> version]

\* The places in the store of the artifacts identified as a is: by type,
\* name, uri and version.
FindArtifact(arts, a) == { i \in DOMAIN arts : arts[i] = a }

\* The store with a logged: nothing is added for an artifact it already holds.
PutArtifact(arts, a) ==
    IF FindArtifact(arts, a) = {} THEN Append(arts, a) ELSE arts

\* An artifact as log_input and log_output return it: with its id.
Logged(arts, a) ==
    [id |-> SetMin(FindArtifact(arts, a)), type |-> a.type, name |-> a.name,
     uri |-> a.uri, version |-> a.version]

Event(eid, aid, type) == [execution_id |-> eid, artifact_id |-> aid, type |-> type]

\* The store after execution eid has logged a as its input or output.
Log(mt, eid, a, type) ==
    LET arts == PutArtifact(mt.artifacts, a)
    IN  [mt EXCEPT !.artifacts = arts,
                   !.events = @ \cup {Event(eid, Logged(arts, a).id, type)}]

\* metadata.Execution(name=..., workspace=ws, run=...): the execution is
\* written to the store and has its id from it.
NewExecution(mt, name, run) ==
    [mt EXCEPT !.executions = Append(@, [name |-> name, run |-> run])]

\* run = metadata.Run(workspace=ws, name=add_suffix("run"), ...)
RunCell ==
    /\ meta.cell = 0
    /\ \E u \in uuid4 :
          meta' = [AfterCall(meta, <<"r", "u", "n">>, u) EXCEPT
                     !.cell = 1,
                     !.run = [id |-> 1, name |-> add_suffix(<<"r", "u", "n">>, u)]]
    /\ UNCHANGED <<notebook, trainer, argp, katib, data>>

\* exec = metadata.Execution(name=add_suffix("execution"), workspace=ws, run=run, ...)
ExecutionCell ==
    /\ meta.cell = 1
    /\ \E u \in uuid4 :
          LET mt == NewExecution(AfterCall(meta, <<"e", "x", "e", "c", "u", "t", "i", "o", "n">>, u),
                                 add_suffix(<<"e", "x", "e", "c", "u", "t", "i", "o", "n">>, u), meta.run.name)
          IN  meta' = [mt EXCEPT !.cell = 2,
                                 !.exec = [id |-> Len(mt.executions)]]
    /\ UNCHANGED <<notebook, trainer, argp, katib, data>>

\* date_set_version = add_suffix("ds")
\* data_set = exec.log_input(metadata.DataSet(..., version=date_set_version, ...))
DataSetCell ==
    /\ meta.cell = 2
    /\ \E u \in uuid4 :
          LET a == Artifact("DataSet", "mytable-dump", "file://path/to/dataset",
                            add_suffix(<<"d", "s">>, u))
              mt == Log(AfterCall(meta, <<"d", "s">>, u), meta.exec.id, a, "INPUT")
          IN  meta' = [mt EXCEPT !.cell = 3, !.data_set = Logged(mt.artifacts, a)]
    /\ UNCHANGED <<notebook, trainer, argp, katib, data>>

\* model_version = add_suffix("model")
\* model = exec.log_output(metadata.Model(name="MNIST", ..., version=model_version, ...))
ModelCell ==
    /\ meta.cell = 3
    /\ \E u \in uuid4 :
          LET a == Artifact("Model", "MNIST", "gcs://my-bucket/mnist",
                            add_suffix(<<"m", "o", "d", "e", "l">>, u))
              mt == Log(AfterCall(meta, <<"m", "o", "d", "e", "l">>, u), meta.exec.id, a, "OUTPUT")
          IN  meta' = [mt EXCEPT !.cell = 4, !.model = Logged(mt.artifacts, a)]
    /\ UNCHANGED <<notebook, trainer, argp, katib, data>>

\* metrics = exec.log_output(metadata.Metrics(name="MNIST evaluation", ...))
MetricsCell ==
    /\ meta.cell = 4
    /\ LET a == Artifact("Metrics", "MNIST evaluation",
                          "gcs://my-bucket/mnist-eval.csv", NoVersion)
           mt == Log(meta, meta.exec.id, a, "OUTPUT")
       IN  meta' = [mt EXCEPT !.cell = 5, !.metrics = Logged(mt.artifacts, a)]
    /\ UNCHANGED <<notebook, trainer, argp, katib, data>>

\* The served model given a version of its own.
ServeCell_newversion ==
    /\ meta.cell = 5
    /\ \E u \in uuid4 :
          LET me == NewExecution(AfterCall(meta, <<"m", "o", "d", "e", "l">>, u), <<"S", "e", "r", "v", "i", "n", "g", " ", "t", "h", "e", " ", "M", "N", "I", "S", "T", " ", "m", "o", "d", "e", "l">>, NoRun)
              a == Artifact("Model", "MNIST", "gcs://my-bucket/mnist",
                            add_suffix(<<"m", "o", "d", "e", "l">>, u))
              mt == Log(me, Len(me.executions), a, "INPUT")
          IN  meta' = [mt EXCEPT !.cell = 6,
                                 !.app = [id |-> Len(me.executions)],
                                 !.m = Logged(mt.artifacts, a)]
    /\ UNCHANGED <<notebook, trainer, argp, katib, data>>

\* app = metadata.Execution(name="Serving the MNIST model", workspace=ws, ...)
\* served_model = metadata.Model(name="MNIST", uri=..., version=model.version)
\* m = app.log_input(served_model)
ServeCell ==
    /\ meta.cell = 5
    /\ LET me == NewExecution(meta, <<"S", "e", "r", "v", "i", "n", "g", " ", "t", "h", "e", " ", "M", "N", "I", "S", "T", " ", "m", "o", "d", "e", "l">>, NoRun)
           a == Artifact("Model", "MNIST", "gcs://my-bucket/mnist", meta.model.version)
           mt == Log(me, Len(me.executions), a, "INPUT")
       IN  meta' = [mt EXCEPT !.cell = 6,
                              !.app = [id |-> Len(me.executions)],
                              !.m = Logged(mt.artifacts, a)]
    /\ UNCHANGED <<notebook, trainer, argp, katib, data>>

\* model_events = ws.store.get_events_by_artifact_ids([model.id])
\* execution_ids = set(e.execution_id for e in model_events)
\* trainer_events = ws.store.get_events_by_execution_ids([exec.id])
\* artifact_ids = set(e.artifact_id for e in trainer_events)
LineageCell ==
    /\ meta.cell = 6
    /\ meta' = [meta EXCEPT
                  !.cell = 7,
                  !.execution_ids =
                      { e.execution_id : e \in { x \in meta.events :
                                                   x.artifact_id = meta.model.id } },
                  !.artifact_ids =
                      { e.artifact_id : e \in { x \in meta.events :
                                                  x.execution_id = meta.exec.id } }]
    /\ UNCHANGED <<notebook, trainer, argp, katib, data>>

\* The store as an earlier session of the notebook left it: an execution and
\* the model it trained, of another version.
MetaEarlier ==
    [MetaIdle EXCEPT
        !.handed = {0},
        !.executions = <<[name |-> add_suffix(<<"e", "x", "e", "c", "u", "t", "i", "o", "n">>, 0), run |-> add_suffix(<<"r", "u", "n">>, 0)]>>,
        !.artifacts = <<Artifact("Model", "MNIST", "gcs://my-bucket/mnist",
                                 add_suffix(<<"m", "o", "d", "e", "l">>, 0))>>,
        !.events = {Event(1, 1, "OUTPUT")}]

InitMeta ==
    /\ NotebookIdle
    /\ trainer = TrainerIdle
    /\ argp = ArgpIdle
    /\ katib = KatibIdle
    /\ meta \in {MetaIdle, MetaEarlier}
    /\ data = DataIdle

NextMeta ==
    \/ RunCell
    \/ ExecutionCell
    \/ DataSetCell
    \/ ModelCell
    \/ MetricsCell
    \/ ServeCell
    \/ LineageCell

SpecMeta == InitMeta /\ [][NextMeta]_vars

\* add_suffix alone, called with any of the names any number of times.
NextSuffix == AddSuffixCall

SpecSuffix == InitMeta /\ [][NextSuffix]_vars

-----------------------------------------------------------------------------
(* C17 *)

\* C17: every execution the notebook constructs, the one of the model-serving
\* component included, is given a run.
C17_EveryExecutionHasRun ==
    \A i \in DOMAIN meta.executions : meta.executions[i].run # NoRun

-----------------------------------------------------------------------------
(* C18 *)

ExecutionsOf(aid) == { e.execution_id : e \in { x \in meta.events : x.artifact_id = aid } }
ArtifactsOf(eid) == { e.artifact_id : e \in { x \in meta.events : x.execution_id = eid } }

\* C18: the model is identified by name, uri and version. Logged as the input
\* of the serving execution, the served model has the id of the trained model;
\* the events of that id name the training and the serving execution, two
\* executions; the events of the training execution name the data set, the
\* model and the metrics, three artifacts, and nothing else; and the lineage
\* cell finds these same sets.
C18_ServedModelIsTrainedModel ==
    /\ meta.cell >= 6 =>
          /\ meta.m.id = meta.model.id
          /\ meta.m.version = meta.model.version
          /\ meta.exec.id # meta.app.id
          /\ ExecutionsOf(meta.model.id) = {meta.exec.id, meta.app.id}
          /\ ArtifactsOf(meta.exec.id) =
                {meta.data_set.id, meta.model.id, meta.metrics.id}
          /\ Cardinality(ArtifactsOf(meta.exec.id)) = 3
    /\ meta.cell = 7 =>
          /\ meta.execution_ids = {meta.exec.id, meta.app.id}
          /\ meta.artifact_ids = {meta.data_set.id, meta.model.id, meta.metrics.id}

\* The notebook was run to its last cell on a store that held a model of an
\* earlier version: the store holds four artifacts, two of them models, and
\* the lineage cell has found two executions and three artifacts.
C18_Witness ==
    /\ meta.cell = 7
    /\ Len(meta.artifacts) = 4
    /\ Cardinality({ i \in DOMAIN meta.artifacts : meta.artifacts[i].type = "Model" }) = 2
    /\ Cardinality(meta.execution_ids) = 2
    /\ Cardinality(meta.artifact_ids) = 3

-----------------------------------------------------------------------------
(* C19 *)

IsHex(c) == \E n \in 1..16 : HexChars[n] = c

\* C19: add_suffix(name) is name, an underscore and the 32 hexadecimal digits
\* of a UUID; name is a proper prefix of the result; and two calls with the
\* same name give different results.
C19_SuffixedNamesDiffer ==
    /\ \A i \in DOMAIN meta.calls :
          LET name == meta.calls[i].name
              result == meta.calls[i].result
          IN  /\ Len(result) = Len(name) + 33
              /\ SubSeq(result, 1, Len(name)) = name
              /\ result # name
              /\ result[Len(name) + 1] = "_"
              /\ \A j \in (Len(name) + 2)..Len(result) : IsHex(result[j])
    /\ \A i, j \in DOMAIN meta.calls :
          (i # j /\ meta.calls[i].name = meta.calls[j].name) =>
              meta.calls[i].result # meta.calls[j].result

\* add_suffix was called three times with the same name.
C19_Witness ==
    /\ Len(meta.calls) = 3
    /\ \A i \in DOMAIN meta.calls : meta.calls[i].name = meta.calls[1].name

-----------------------------------------------------------------------------
(* C20 *)

\* C20: a name that get_resource returns is not empty, is a prefix of the
\* first line of the captured text and holds no line break: no later line is
\* ever part of the name.
C20_NameWithinFirstLine ==
    ret.kind = "return" =>
        /\ ret.value # <<>>
        /\ Len(ret.value) <= Len(LineAt(Text, 1))
        /\ SubSeq(LineAt(Text, 1), 1, Len(ret.value)) = ret.value
        /\ \A i \in 1..Len(ret.value) : ret.value[i] # NL

\* A name was returned from a text of several lines whose later lines hold
\* more than line breaks.
C20_Witness ==
    /\ ret.kind = "return"
    /\ Cardinality(LineStarts(Text)) >= 2
    /\ \E p \in LineStarts(Text) : p > 1 /\ LineAt(Text, p) # <<>>

-----------------------------------------------------------------------------
(* C21 *)

-----------------------------------------------------------------------------
(* C22 *)

\* The last create command has failed, reporting it on its standard error
\* only, and get_resource was called on what was captured of it.
FailedOnStderr == Called /\ errout # <<>>

-----------------------------------------------------------------------------
(* C23 *)

\* The cell of the assignment ends after a call of get_resource that raised.
RaisedCallEnds == pc = "called" /\ ret.kind = "raise" /\ pc' = "idle"

\* C23: when get_resource raises the assignment does not take place: the job
\* variable is after the cell what it was before the call, the name of an
\* earlier extraction or undefined, and the call has not touched it either.
C23_RaiseKeepsJobVariable ==
    [][(RaisedCallEnds \/ IsCall) => JOB' = JOB]_vars

\* The create and extract cells were run again after a successful extraction
\* and the call raised: the variable holds the earlier name.
C23_Witness ==
    /\ pc = "idle"
    /\ ret.kind = "raise"
    /\ JOB.defined
    /\ JOB.value = ResourceName
    /\ Cardinality({ i \in DOMAIN cmds : cmds[i].verb = "create" }) = 2

-----------------------------------------------------------------------------
(* C24 *)

\* The call of get_resource of this run has returned a name.
CreationConfirmed == cell \in 1..Len(RunOrder(nb)) /\ ret.kind = "return"

\* The run has gone through its last cell.
RunEnded == cell = Len(RunOrder(nb)) + 1 /\ pc = "idle" /\ inflight = {}

\* C24: a top-to-bottom run in which creation is confirmed and every command
\* terminates comes to its end, and at its end the last command issued is the
\* delete command with the extracted name and the resource the run created
\* is no longer on the cluster.
C24_RunEndsWithResourceDeleted ==
    CreationConfirmed ~>
        /\ RunEnded
        /\ cmds[Len(cmds)] = Cmd("delete", ret.value)
        /\ JOB.value = ret.value
        /\ ~cluster

\* The run has ended on a cluster that did not hold the resource before:
\* the run created it, extracted its name and deleted it.
C24_Witness ==
    /\ RunEnded
    /\ ~existed
    /\ ret.kind = "return"
    /\ cmds[1].verb = "create"
    /\ cmds[Len(cmds)] = Cmd("delete", ResourceName)
    /\ ~cluster

-----------------------------------------------------------------------------
(* The Horovod trainer: get_dataset *)

MaxExamples == 7   \* examples in the training and in the test data, at most

\* The examples of an array of the data file, by their place in it from 0.
Examples(n) == [i \in 1..n |-> i - 1]

\* The number of places a[start:stop:step] takes, 0 <= start, 0 <= stop, step >= 1.
SliceLen(a, start, stop, step) ==
    LET hi == IF stop < Len(a) THEN stop ELSE Len(a)
    IN  IF start >= hi THEN 0 ELSE (hi - start + step - 1) \div step

\* a[start:stop:step]: the elements at the places start, start + step, ...
\* below stop and below the length of a.
Slice(a, start, stop, step) ==
    [j \in 1..SliceLen(a, start, stop, step) |-> a[start + (j - 1) * step + 1]]

Shard(train, test) == [loaded |-> TRUE, train |-> train, test |-> test]

\* The slices written [rank:size], with one colon.
get_dataset_range(rank, size) ==
    Shard(Slice(data.train, rank, size, 1), Slice(data.test, rank, size, 1))

\* get_dataset(rank, size): x_train and y_train are f[...][rank::size], the
\* same places of both; x_test and y_test likewise. Dividing by 255.0 changes
\* the values of an example, not which examples there are.
get_dataset(rank, size) ==
    Shard(Slice(data.train, rank, Len(data.train), size),
          Slice(data.test, rank, Len(data.test), size))

\* (x_train, y_train), (x_test, y_test) = get_dataset(hvd.rank(), hvd.size())
\* in the process of rank i - 1.
LoadShard(i) ==
    /\ i \in 1..data.size
    /\ ~data.shard[i].loaded
    /\ data' = [data EXCEPT !.shard[i] = get_dataset(Rank(i), data.size)]
    /\ UNCHANGED <<notebook, trainer, argp, katib, meta>>

\* The data file, and the processes started on it, none having read it yet.
InitShard ==
    /\ NotebookIdle
    /\ trainer = TrainerIdle
    /\ argp = ArgpIdle
    /\ katib = KatibIdle
    /\ meta = MetaIdle
    /\ data \in { [train |-> Examples(n), test |-> Examples(m), size |-> k,
                    shard |-> [i \in 1..k |-> NotLoaded]] :
                      n \in 0..MaxExamples, m \in 0..MaxExamples, k \in 1..MaxSize }

NextShard == \E i \in 1..MaxSize : LoadShard(i)

SpecShard == InitShard /\ [][NextShard]_vars

-----------------------------------------------------------------------------
(* C25 *)

Elements(a) == { a[j] : j \in 1..Len(a) }

RECURSIVE SumLen(_, _)
SumLen(shards, k) == IF k = 0 THEN 0 ELSE Len(shards[k]) + SumLen(shards, k - 1)

\* The shards of the array a that the ranks have taken: pairwise disjoint,
\* example e in the shard of rank e mod size; and once every rank has its
\* shard, every example of a is in exactly one of them, exactly once, and
\* the sizes of two shards differ by one at most.
Partitioned(a, shards) ==
    LET ranks == { i \in 1..data.size : data.shard[i].loaded }
    IN  /\ \A i \in ranks :
              /\ \A j \in 1..Len(shards[i]) : shards[i][j] % data.size = Rank(i)
              /\ Cardinality(Elements(shards[i])) = Len(shards[i])
              /\ Elements(shards[i]) \subseteq Elements(a)
        /\ \A i, j \in ranks :
              i # j => Elements(shards[i]) \cap Elements(shards[j]) = {}
        /\ ranks = 1..data.size =>
              /\ UNION { Elements(shards[i]) : i \in ranks } = Elements(a)
              /\ SumLen(shards, data.size) = Len(a)
              /\ \A i, j \in ranks : Len(shards[i]) - Len(shards[j]) <= 1

\* C25: for every size >= 1 the shards get_dataset(rank, size) of the ranks
\* 0..size-1 are pairwise disjoint, hold every example of the data set
\* exactly once, example i in the shard of rank i mod size, and differ in
\* size by one at most; for the training data and for the test data.
C25_ShardsPartitionDataSet ==
    /\ Partitioned(data.train, [i \in 1..data.size |-> data.shard[i].train])
    /\ Partitioned(data.test, [i \in 1..data.size |-> data.shard[i].test])

\* Three ranks have taken their shards of seven training examples: shards
\* of three, two and two examples.
C25_Witness ==
    /\ data.size = 3
    /\ Len(data.train) = 7
    /\ \A i \in 1..data.size : data.shard[i].loaded
    /\ Len(data.shard[1].train) = 3
    /\ Len(data.shard[2].train) = 2
    /\ Len(data.shard[3].train) = 2
    /\ Len(data.shard[3].test) < Len(data.shard[1].test)

====
